---- MODULE Spec2Model ----
(***************************************************************************)
(* Model of the sgr-agent-core agent service:                              *)
(*   - ContextWindowManager (core/context_manager.py): count_tokens and    *)
(*     smart_truncate, as pure operators;                                  *)
(*   - SGRInfiniteAutoToolCallingAgent (core/agents/                       *)
(*     sgr_infinite_auto_tool_calling_agent.py): the execute loop, cut at  *)
(*     its awaits, and continue_conversation;                              *)
(*   - the request handlers and the agent registry (api/endpoints.py).     *)
(* The specifications share the variables: Spec runs one agent and the     *)
(* request handlers, SpecReduce applies smart_truncate to conversations    *)
(* built the way the loop builds them, SpecConfig does the same for every  *)
(* manager the constructor accepts.                                        *)
(***************************************************************************)
EXTENDS Integers, Sequences, FiniteSets

VARIABLES
    \* ---- ContextWindowManager under test (SpecReduce)
    available_tokens,   \* self.available_tokens
    input,              \* the conversation handed to smart_truncate
    truncated,          \* smart_truncate(input)
    retruncated,        \* smart_truncate(smart_truncate(input))
    applied,            \* whether smart_truncate has been applied to input
    \* ---- the agent registry and the agent (Spec)
    agents_storage,     \* endpoints.py:25, the ids of the stored agents
    state,              \* agent._context.state
    iteration,          \* agent._context.iteration
    current_step_reasoning, \* agent._context.current_step_reasoning
    clarification_received, \* agent._context.clarification_received (an Event)
    user_requested_stop,    \* agent.user_requested_stop
    conversation,       \* agent.conversation
    context,            \* the last outbound context _prepare_context built
    action_tool,        \* the tool of the pass in flight
    pc,                 \* where the execute task stands
    stream_finished,    \* streaming_generator.finish() was called
    logs_saved,         \* calls of _save_agent_log
    finish_calls,       \* calls of streaming_generator.finish()
    requests,           \* requests handled for the agent (bounds the run)
    is_infinite,        \* isinstance(agent, SGRInfiniteAutoToolCallingAgent)
    tasks_started,      \* calls of asyncio.create_task(agent.execute())
    response            \* status code of the last answer of a handler

reduceVars == <<input, truncated, retruncated, applied>>

contextVars == <<state, iteration, current_step_reasoning, clarification_received>>

agentVars == <<agents_storage, contextVars, user_requested_stop, conversation,
               context, action_tool, pc, stream_finished, logs_saved,
               finish_calls, requests, is_infinite, tasks_started, response>>

vars == <<available_tokens, reduceVars, agentVars>>

(***************************************************************************)
(* Bounds of the model                                                     *)
(***************************************************************************)
MaxLen == 10           \* longest conversation handed to smart_truncate
SmallBudget == 20      \* a budget below every reduced conversation
MediumBudget == 56     \* a budget some reductions fit and some do not
LargeBudget == 70      \* a budget most conversations fit
MaxIterations == 2     \* passes of the loop in a run
MaxRequests == 2       \* requests addressed to the agent in a run
ContextWindowSize == 50    \* context_window_size, scaled down from 70000
SystemPromptReserve == 20  \* system_prompt_reserve, scaled down from 2000
ResponseReserve == 12      \* config.openai.max_tokens, scaled down

(***************************************************************************)
(* Messages.  A message is a record                                        *)
(*   id         identity of the dict object (its position when appended;   *)
(*              0 for the summary smart_truncate synthesises)              *)
(*   role       "system" | "user" | "assistant" | "tool"                   *)
(*   content    the text of the message                                    *)
(*   tokens     len(encoding.encode(str(content))), 0 for empty content    *)
(*   tool_calls sequence of [name, tokens]: the function name and          *)
(*              len(encoding.encode(name + arguments))                     *)
(*   removed    the number an f-string summary states, -1 otherwise        *)
(***************************************************************************)
Max(a, b) == IF a >= b THEN a ELSE b

Min(a, b) == IF a <= b THEN a ELSE b

Message(id, role, content, tokens, tool_calls) ==
    [id |-> id, role |-> role, content |-> content, tokens |-> tokens,
     tool_calls |-> tool_calls, removed |-> -1]

ToolCall(name, tokens) == [name |-> name, tokens |-> tokens]

UserTokens == 1
LongUserTokens == 9
AssistantTokens == 1
ToolResultTokens == 2
ToolCallTokens == 2

UserMessage(id, content, tokens) == Message(id, "user", content, tokens, <<>>)

ToolCallMessage(id, name) ==
    Message(id, "assistant", "step", AssistantTokens,
            <<ToolCall(name, ToolCallTokens)>>)

ToolResultMessage(id) == Message(id, "tool", "result", ToolResultTokens, <<>>)

\* the tool-result message that describes a failed invocation
ToolFailureMessage(id) == Message(id, "tool", "error", ToolResultTokens, <<>>)

\* context_manager.py:50 "Every message has role overhead"
RoleOverhead == 4

\* context_manager.py:57-65: the tokens of every tool call's name + arguments
RECURSIVE ToolCallsTokens(_)
ToolCallsTokens(tool_calls) ==
    IF tool_calls = <<>> THEN 0
    ELSE Head(tool_calls).tokens + ToolCallsTokens(Tail(tool_calls))

\* a count without the overhead of context_manager.py:50
MessageTokensWithoutOverhead(message) ==
    message.tokens + ToolCallsTokens(message.tool_calls)

\* context_manager.py:49-65: one message's share of count_tokens
MessageTokens(message) ==
    RoleOverhead + message.tokens + ToolCallsTokens(message.tool_calls)

\* context_manager.py:37-67
RECURSIVE count_tokens(_)
count_tokens(messages) ==
    IF messages = <<>> THEN 0
    ELSE MessageTokens(Head(messages)) + count_tokens(Tail(messages))

\* context_manager.py:29
AvailableTokens(max_tokens, system_prompt_reserve, response_reserve) ==
    max_tokens - system_prompt_reserve - response_reserve

\* context_manager.py:203
ImportantToolNames == {"finalanswertool", "createreporttool", "websearchtool"}

\* context_manager.py:187 "Keep last 8 messages as recent"
RecentWindow == 8

\* context_manager.py:218 recent_messages[-6:]
FallbackKeep == 6

\* tokens of "[Context optimized: N intermediate messages removed]"
SummaryTokens == 10

\* context_manager.py:214-217
Summary(removed_count) ==
    [id |-> 0, role |-> "system", content |-> "[Context optimized]",
     tokens |-> SummaryTokens, tool_calls |-> <<>>, removed |-> removed_count]

\* context_manager.py:192-206: the middle messages smart_truncate keeps
IsImportant(msg, preserve_tool_results) ==
    IF preserve_tool_results /\ msg.role = "tool" THEN TRUE
    ELSE /\ msg.tool_calls # <<>>
         /\ \E i \in 1..Len(msg.tool_calls) :
                msg.tool_calls[i].name \in ImportantToolNames

\* seq[-n:]
LastN(seq, n) == SubSeq(seq, Max(1, Len(seq) - n + 1), Len(seq))

\* context_manager.py:182
InitialTask(conv) ==
    IF conv # <<>> THEN <<conv[1]>> ELSE <<>>

\* context_manager.py:187 (a 0-based index)
RecentThreshold(conv) == Max(1, Len(conv) - RecentWindow)

\* context_manager.py:189-191: the messages at 0-based idx >= recent_threshold
RecentMessages(conv) ==
    SubSeq(conv, RecentThreshold(conv) + 1, Len(conv))

\* the important messages classified without regard to recent_threshold
ImportantMessagesAlsoRecent(conv, preserve_tool_results) ==
    LET Keep(msg) == IsImportant(msg, preserve_tool_results)
    IN  SelectSeq(SubSeq(conv, 2, Len(conv)), Keep)

\* context_manager.py:189-206: the messages at 1 <= idx < recent_threshold
\* that are tool results or call an important tool
ImportantMessages(conv, preserve_tool_results) ==
    LET Keep(msg) == IsImportant(msg, preserve_tool_results)
    IN  SelectSeq(SubSeq(conv, 2, RecentThreshold(conv)), Keep)

\* Fallback without the [-6:] slice
FallbackKeepsAllRecent(conv, preserve_tool_results) ==
    InitialTask(conv)
        \o <<Summary(Len(ImportantMessages(conv, preserve_tool_results)))>>
        \o RecentMessages(conv)

\* Fallback with the [-5:] slice of truncate_conversation
FallbackKeepsFive(conv, preserve_tool_results) ==
    InitialTask(conv)
        \o <<Summary(Len(ImportantMessages(conv, preserve_tool_results)))>>
        \o LastN(RecentMessages(conv), FallbackKeep - 1)

\* Fallback with the initial task put after the recent messages
FallbackTaskLast(conv, preserve_tool_results) ==
    <<Summary(Len(ImportantMessages(conv, preserve_tool_results)))>>
        \o LastN(RecentMessages(conv), FallbackKeep)
        \o InitialTask(conv)

\* context_manager.py:211-218: initial + summary + recent[-6:]
Fallback(conv, preserve_tool_results) ==
    InitialTask(conv)
        \o <<Summary(Len(ImportantMessages(conv, preserve_tool_results)))>>
        \o LastN(RecentMessages(conv), FallbackKeep)

\* smart_truncate with < for <= in the fast-path test
smart_truncate_StrictFastPath(conv, preserve_tool_results, available) ==
    IF count_tokens(conv) < available THEN conv
    ELSE LET combined == InitialTask(conv)
                            \o ImportantMessages(conv, preserve_tool_results)
                            \o RecentMessages(conv)
         IN  IF count_tokens(combined) > available
             THEN Fallback(conv, preserve_tool_results)
             ELSE combined

\* context_manager.py:155-220
smart_truncate(conv, preserve_tool_results, available) ==
    IF count_tokens(conv) <= available THEN conv
    ELSE LET combined == InitialTask(conv)
                            \o ImportantMessages(conv, preserve_tool_results)
                            \o RecentMessages(conv)
         IN  IF count_tokens(combined) > available
             THEN Fallback(conv, preserve_tool_results)
             ELSE combined

(***************************************************************************)
(* The agent (SGRInfiniteAutoToolCallingAgent) and its registry            *)
(***************************************************************************)
\* agent.id of the agent a creating request stores, and an id of that shape
\* that was never stored
AgentId == "sgr_agent_0b1e6f5c-7a64"

UnknownAgentId == "sgr_agent_ffffffff-0000"

\* AgentModel values, and a model name outside the enum
InfiniteModel == "sgr_infinite_auto_tool_calling_agent"

OrdinaryModel == "sgr_tool_calling_agent"

InvalidModel == "gpt-4o"

AgentModels == {InfiniteModel, OrdinaryModel}

\* what request.model may carry
RequestModels == {AgentId, UnknownAgentId, InvalidModel} \cup AgentModels

\* what the agent_id of a path may carry
RequestIds == {AgentId, UnknownAgentId}

\* "_" in model_str, on the strings above
HasUnderscore(model_str) == model_str # InvalidModel

\* len(model_str), on the strings above
Length(model_str) ==
    IF model_str \in {AgentId, UnknownAgentId} THEN 23
    ELSE IF model_str = InfiniteModel THEN 36
    ELSE IF model_str = OrdinaryModel THEN 22
    ELSE 6

\* endpoints.py:107-110
IsAgentId(model_str) == HasUnderscore(model_str) /\ Length(model_str) > 20

\* endpoints.py:119-124: the request continues a stored agent
IsContinuation(model_str, storage) ==
    IsAgentId(model_str) /\ model_str \in storage

\* what a handler answers: the status code, and the detail of the
\* HTTPException or the kind of the body
Response(status_code, detail) == [status_code |-> status_code, detail |-> detail]

\* no handler has answered yet
NoResponse == Response(0, "none")

\* the StreamingResponse of endpoints.py:92-100, 139-148 and 180-189
StreamingResponse == Response(200, "stream")

\* endpoints.py:102-104: whatever the try block raises, the HTTPException of
\* endpoints.py:87 included, is answered with status 500 and its text
ExceptException(raised) == Response(500, raised.detail)

\* AgentStatesEnum.FINISH_STATES
FINISH_STATES == {"COMPLETED", "FAILED"}

AgentStates == {"CREATED", "RESEARCHING", "WAITING_FOR_CLARIFICATION"}
                   \cup FINISH_STATES

\* the texts a request may carry
UserTexts == {"stop", " Stop ", "more"}

\* str.lower() on the texts above
Lower(text) == IF text = " Stop " THEN " stop " ELSE text

\* str.strip() on the texts above and their lower-case forms
Strip(text) ==
    IF text = " stop " THEN "stop" ELSE IF text = " Stop " THEN "Stop" ELSE text

\* agent.py:120 (the list also holds three Cyrillic phrases)
StopPhrases == {"stop", "finish", "end"}

\* agent.py:120
IsStopPhrase(user_message) == Strip(Lower(user_message)) \in StopPhrases

\* the tools a pass may select: FinalAnswerTool carries a status
NoTool == [name |-> "none", status |-> "none"]

SelectableTools ==
    {[name |-> "FinalAnswerTool", status |-> "COMPLETED"],
     [name |-> "ClarificationTool", status |-> "none"],
     [name |-> "CreateFileTool", status |-> "none"]}

\* the function name the assistant's tool call carries
ToolCallName(tool) ==
    IF tool.name = "FinalAnswerTool" THEN "finalanswertool"
    ELSE IF tool.name = "ClarificationTool" THEN "clarificationtool"
    ELSE "createfiletool"

\* agent.py:82-85: the system prompt, then the truncated conversation
SystemPrompt == Message(0, "system", "system_prompt", SystemPromptReserve, <<>>)

\* agent.py:52-85
PrepareContext(conv) ==
    <<SystemPrompt>> \o smart_truncate(conv, TRUE, available_tokens)

InitAgent ==
    /\ agents_storage = {}
    /\ state = "CREATED"
    /\ iteration = 0
    /\ current_step_reasoning = 0
    /\ clarification_received = FALSE
    /\ user_requested_stop = FALSE
    /\ conversation = <<>>
    /\ context = <<>>
    /\ action_tool = NoTool
    /\ pc = "idle"
    /\ stream_finished = FALSE
    /\ logs_saved = 0
    /\ finish_calls = 0
    /\ requests = 0
    /\ is_infinite = TRUE
    /\ tasks_started = 0
    /\ response = NoResponse

\* agent.py:41-46 builds the manager; the execute task does not exist yet
Init ==
    /\ available_tokens =
          AvailableTokens(ContextWindowSize, SystemPromptReserve, ResponseReserve)
    /\ input = <<>>
    /\ truncated = <<>>
    /\ retruncated = <<>>
    /\ applied = FALSE
    /\ InitAgent

\* a finally block that saves the log and leaves the stream open
FinallyLeavesStreamOpen ==
    /\ logs_saved' = logs_saved + 1
    /\ pc' = "done"
    /\ UNCHANGED <<stream_finished, finish_calls>>

\* agent.py:200-204, the finally block of execute
Finally ==
    /\ stream_finished' = TRUE
    /\ finish_calls' = finish_calls + 1
    /\ logs_saved' = logs_saved + 1
    /\ pc' = "done"

\* LoopHead without the increment of agent.py:164
LoopHeadKeepsIteration(conv) ==
    IF user_requested_stop
    THEN Finally /\ UNCHANGED <<iteration, context>>
    ELSE /\ context' = PrepareContext(conv)
         /\ pc' = "reasoning"
         /\ UNCHANGED <<iteration, stream_finished, logs_saved, finish_calls>>

\* agent.py:163-171: the while test, the increment and the outbound context,
\* up to the await of the reasoning engine; conv is the conversation by then
LoopHead(conv) ==
    IF user_requested_stop
    THEN Finally /\ UNCHANGED <<iteration, context>>
    ELSE /\ iteration < MaxIterations
         /\ iteration' = iteration + 1
         /\ context' = PrepareContext(conv)
         /\ pc' = "reasoning"
         /\ UNCHANGED <<stream_finished, logs_saved, finish_calls>>

\* agent.py:99-108: an intercepted FinalAnswerTool puts the state back
StateAfterSelect(tool, stop, st) ==
    IF tool.name = "FinalAnswerTool" /\ ~stop /\ tool.status = "COMPLETED"
    THEN "RESEARCHING"
    ELSE st

\* the tool's own effect on the context: FinalAnswerTool requests its status
StateAfterTool(tool, st) ==
    IF tool.name = "FinalAnswerTool" THEN tool.status ELSE st

\* WaitsForUser without the FinalAnswerTool branch of agent.py:185
WaitsOnlyForClarification(tool, stop) == tool.name = "ClarificationTool"

\* agent.py:177 and agent.py:185: the passes that end in the wait
WaitsForUser(tool, stop) ==
    \/ tool.name = "ClarificationTool"
    \/ tool.name = "FinalAnswerTool" /\ ~stop

\* agent.py:139-140
StateAfterMessage(st) == IF st \in FINISH_STATES THEN "RESEARCHING" ELSE st

\* endpoints.py:136-137
SignalAfterContinue(stop, signal) == IF ~stop THEN TRUE ELSE signal

\* every variable of the agent and the registry but the answer of a handler
answerFrame == <<available_tokens, reduceVars, agents_storage, contextVars,
                 user_requested_stop, conversation, context, action_tool, pc,
                 stream_finished, logs_saved, finish_calls, requests,
                 is_infinite, tasks_started>>

\* a handler that answers (or raises an HTTPException) and touches nothing
AnswerOnly(answer) ==
    /\ response' = answer
    /\ UNCHANGED answerFrame

\* endpoints.py:115-116
RejectNonStreaming == AnswerOnly(Response(501, "Only streaming"))

\* a rejection that comes after the agent was stored
RejectInvalidModelAfterInsert(model) ==
    /\ ~IsContinuation(model, agents_storage)
    /\ model \notin AgentModels
    /\ agents_storage' = agents_storage \cup {AgentId}
    /\ response' = Response(400, "Invalid model")
    /\ UNCHANGED <<available_tokens, reduceVars, contextVars,
                   user_requested_stop, conversation, context, action_tool, pc,
                   stream_finished, logs_saved, finish_calls, requests,
                   is_infinite, tasks_started>>

\* endpoints.py:163-172: a streaming request that names no stored agent and
\* no AgentModel
RejectInvalidModel(model) ==
    /\ ~IsContinuation(model, agents_storage)
    /\ model \notin AgentModels
    /\ AnswerOnly(Response(400, "Invalid model"))

\* endpoints.py:163-189: a valid streaming request creates the agent, stores
\* it and starts its execute task
CreateAgent(model) ==
    /\ ~IsContinuation(model, agents_storage)
    /\ model \in AgentModels
    /\ AgentId \notin agents_storage
    /\ agents_storage' = agents_storage \cup {AgentId}
    /\ is_infinite' = (model = InfiniteModel)
    /\ tasks_started' = tasks_started + 1
    /\ response' = StreamingResponse
    /\ pc' = "start"
    /\ UNCHANGED <<available_tokens, reduceVars, contextVars, user_requested_stop,
                   conversation, context, action_tool, stream_finished,
                   logs_saved, finish_calls, requests>>

\* endpoints.py:33-45
GetAgentState(agent_id) ==
    AnswerOnly(IF agent_id \notin agents_storage
               THEN Response(404, "Agent not found")
               ELSE Response(200, "state"))

\* a continuation that starts the execute task again
ContinueConversationRestarts(user_message) ==
    /\ IsContinuation(AgentId, agents_storage)
    /\ is_infinite
    /\ pc # "start"
    /\ requests < MaxRequests
    /\ requests' = requests + 1
    /\ conversation' = Append(conversation,
          UserMessage(Len(conversation) + 1, user_message, UserTokens))
    /\ tasks_started' = tasks_started + 1
    /\ response' = StreamingResponse
    /\ UNCHANGED <<available_tokens, reduceVars, agents_storage, contextVars,
                   user_requested_stop, context, action_tool, pc,
                   stream_finished, logs_saved, finish_calls, is_infinite>>

\* endpoints.py:119-148 with agent.py:112-142.  A request names the agent by
\* the id its first response carried, and the event loop has run the new
\* task's first step by the time such a request can be read.
ContinueConversation(user_message) ==
    /\ IsContinuation(AgentId, agents_storage)
    /\ is_infinite
    /\ pc # "start"
    /\ requests < MaxRequests
    /\ requests' = requests + 1
    /\ IF IsStopPhrase(user_message)
       THEN /\ user_requested_stop' = TRUE
            /\ state' = "COMPLETED"
            /\ conversation' = Append(conversation,
                  UserMessage(Len(conversation) + 1, "stop requested", UserTokens))
       ELSE /\ conversation' = Append(conversation,
                  UserMessage(Len(conversation) + 1, user_message, UserTokens))
            /\ state' = StateAfterMessage(state)
            /\ UNCHANGED user_requested_stop
    /\ clarification_received' =
          SignalAfterContinue(user_requested_stop', clarification_received)
    /\ response' = StreamingResponse
    /\ UNCHANGED <<available_tokens, reduceVars, agents_storage, iteration,
                   current_step_reasoning, context, action_tool, pc,
                   stream_finished, logs_saved, finish_calls, is_infinite,
                   tasks_started>>

\* BaseAgent.provide_clarification: the text joins the conversation, the
\* resume signal is set and the state goes back to RESEARCHING
AgentProvideClarification ==
    /\ conversation' = Append(conversation,
          UserMessage(Len(conversation) + 1, "clarification", UserTokens))
    /\ clarification_received' = TRUE
    /\ state' = "RESEARCHING"

\* endpoints.py:82-104
ProvideClarification(agent_id) ==
    IF agent_id \notin agents_storage
    THEN AnswerOnly(ExceptException(Response(404, "Agent not found")))
    ELSE /\ pc # "start"
         /\ requests < MaxRequests
         /\ state = "WAITING_FOR_CLARIFICATION"
         /\ requests' = requests + 1
         /\ AgentProvideClarification
         /\ response' = StreamingResponse
         /\ UNCHANGED <<available_tokens, reduceVars, agents_storage, iteration,
                        current_step_reasoning, user_requested_stop, context,
                        action_tool, pc, stream_finished, logs_saved,
                        finish_calls, is_infinite, tasks_started>>

\* the continuation of endpoints.py:129-148 applied to a stored agent of
\* another class, whatever its state
ContinueOrdinaryAgentUnchecked ==
    /\ IsContinuation(AgentId, agents_storage)
    /\ ~is_infinite
    /\ pc # "start"
    /\ requests < MaxRequests
    /\ requests' = requests + 1
    /\ conversation' = Append(conversation,
          UserMessage(Len(conversation) + 1, "more", UserTokens))
    /\ state' = StateAfterMessage(state)
    /\ clarification_received' = TRUE
    /\ response' = StreamingResponse
    /\ UNCHANGED <<available_tokens, reduceVars, agents_storage, iteration,
                   current_step_reasoning, user_requested_stop, context,
                   action_tool, pc, stream_finished, logs_saved, finish_calls,
                   is_infinite, tasks_started>>

\* endpoints.py:150-161: a request that names a stored agent of another class
ContinueOrdinaryAgent ==
    /\ IsContinuation(AgentId, agents_storage)
    /\ ~is_infinite
    /\ pc # "start"
    /\ IF state = "WAITING_FOR_CLARIFICATION"
       THEN ProvideClarification(AgentId)
       ELSE AnswerOnly(Response(400, "cannot continue conversation"))

\* agent.py:153-171: the task's first step
ExecuteStart ==
    /\ pc = "start"
    /\ is_infinite
    /\ conversation' = Append(conversation,
          UserMessage(Len(conversation) + 1, "task", UserTokens))
    /\ LoopHead(conversation')
    /\ UNCHANGED <<available_tokens, reduceVars, agents_storage, state,
                   current_step_reasoning, clarification_received,
                   user_requested_stop, action_tool, requests, is_infinite,
                   tasks_started, response>>

\* agent.py:171-173: the reasoning engine answers
ReasoningPhase ==
    /\ pc = "reasoning"
    /\ current_step_reasoning' = iteration
    /\ pc' = "select"
    /\ UNCHANGED <<available_tokens, reduceVars, agents_storage, state, iteration,
                   clarification_received, user_requested_stop, conversation,
                   context, action_tool, stream_finished, logs_saved,
                   finish_calls, requests, is_infinite, tasks_started, response>>

\* the exception of the reasoning engine caught inside the while body: the
\* state is FAILED and the next pass begins
ReasoningPhaseRaisesInsideLoop ==
    /\ pc = "reasoning"
    /\ state' = "FAILED"
    /\ LoopHead(conversation)
    /\ UNCHANGED <<available_tokens, reduceVars, agents_storage,
                   current_step_reasoning, clarification_received,
                   user_requested_stop, conversation, action_tool, requests,
                   is_infinite, tasks_started, response>>

\* agent.py:195-204: the reasoning engine raises
ReasoningPhaseRaises ==
    /\ pc = "reasoning"
    /\ state' = "FAILED"
    /\ Finally
    /\ UNCHANGED <<available_tokens, reduceVars, agents_storage, iteration,
                   current_step_reasoning, clarification_received,
                   user_requested_stop, conversation, context, action_tool,
                   requests, is_infinite, tasks_started, response>>

\* agent.py:87-110 and agent.py:173-174: a tool is selected
SelectActionPhase ==
    /\ pc = "select"
    /\ \E tool \in SelectableTools :
          /\ action_tool' = tool
          /\ conversation' = Append(conversation,
                ToolCallMessage(Len(conversation) + 1, ToolCallName(tool)))
          /\ state' = StateAfterSelect(tool, user_requested_stop, state)
    /\ pc' = "action"
    /\ UNCHANGED <<available_tokens, reduceVars, agents_storage, iteration,
                   current_step_reasoning, clarification_received,
                   user_requested_stop, context, stream_finished, logs_saved,
                   finish_calls, requests, is_infinite, tasks_started, response>>

\* agent.py:174-193: the tool returns; the pass ends in the wait or goes on
\* to the next pass
ActionPhase ==
    /\ pc = "action"
    /\ conversation' = Append(conversation,
          ToolResultMessage(Len(conversation) + 1))
    /\ IF WaitsForUser(action_tool, user_requested_stop)
       THEN /\ state' = "WAITING_FOR_CLARIFICATION"
            /\ clarification_received' = FALSE
            /\ pc' = "waiting"
            /\ UNCHANGED <<iteration, context, stream_finished, logs_saved,
                           finish_calls>>
       ELSE /\ state' = StateAfterTool(action_tool, state)
            /\ LoopHead(conversation')
            /\ UNCHANGED clarification_received
    /\ UNCHANGED <<available_tokens, reduceVars, agents_storage,
                   current_step_reasoning, user_requested_stop, action_tool,
                   requests, is_infinite, tasks_started, response>>

\* the message _action_phase leaves in the conversation when the tool raised
\* (create_file_tool.py:57-65, get_size_tool.py:52)
RecordedFailure(conv) == Append(conv, ToolFailureMessage(Len(conv) + 1))

\* the tool's exception leaves _action_phase and reaches agent.py:195-204
ToolRaisesEscapes ==
    /\ pc = "action"
    /\ action_tool.name = "CreateFileTool"
    /\ state' = "FAILED"
    /\ Finally
    /\ UNCHANGED <<available_tokens, reduceVars, agents_storage, iteration,
                   current_step_reasoning, clarification_received,
                   user_requested_stop, conversation, context, action_tool,
                   requests, is_infinite, tasks_started, response>>

\* agent.py:174-193 when the tool raises (create_file_tool.py:57-65,
\* get_size_tool.py:52): _action_phase records the failure as the tool's
\* result and the pass goes on to the next pass
ToolRaises ==
    /\ pc = "action"
    /\ action_tool.name = "CreateFileTool"
    /\ conversation' = RecordedFailure(conversation)
    /\ LoopHead(conversation')
    /\ UNCHANGED <<available_tokens, reduceVars, agents_storage, state,
                   current_step_reasoning, clarification_received,
                   user_requested_stop, action_tool, requests, is_infinite,
                   tasks_started, response>>

\* a resumed pass that stores the truncated view as the conversation
ResumeAfterWaitStoresView ==
    /\ pc = "waiting"
    /\ is_infinite
    /\ clarification_received
    /\ conversation' = smart_truncate(conversation, TRUE, available_tokens)
    /\ LoopHead(conversation')
    /\ UNCHANGED <<available_tokens, reduceVars, agents_storage, state,
                   current_step_reasoning, clarification_received,
                   user_requested_stop, action_tool, requests, is_infinite,
                   tasks_started, response>>

\* agent.py:181-182 and agent.py:192-193: the wait returns and the loop
\* goes on
ResumeAfterWait ==
    /\ pc = "waiting"
    /\ is_infinite
    /\ clarification_received
    /\ LoopHead(conversation)
    /\ UNCHANGED <<available_tokens, reduceVars, agents_storage, state,
                   current_step_reasoning, clarification_received,
                   user_requested_stop, conversation, action_tool, requests,
                   is_infinite, tasks_started, response>>

(***************************************************************************)
(* An agent of another class (BaseAgent.execute): the loop of passes, each *)
(* pass taken whole.                                                       *)
(***************************************************************************)
\* how a pass of such an agent ends
PassOutcomes == {"tool", "clarification", "answer", "error"}

\* the task's first step: the task joins the conversation and the first
\* pass begins
OrdinaryExecuteStart ==
    /\ pc = "start"
    /\ ~is_infinite
    /\ conversation' = Append(conversation,
          UserMessage(Len(conversation) + 1, "task", UserTokens))
    /\ state' = "RESEARCHING"
    /\ iteration' = iteration + 1
    /\ pc' = "pass"
    /\ UNCHANGED <<available_tokens, reduceVars, agents_storage,
                   current_step_reasoning, clarification_received,
                   user_requested_stop, context, action_tool, stream_finished,
                   logs_saved, finish_calls, requests, is_infinite,
                   tasks_started, response>>

\* a pass ends: with a tool result and the next pass, in the wait for a
\* clarification, with the answer, or with an exception
OrdinaryPass ==
    /\ pc = "pass"
    /\ \E outcome \in PassOutcomes :
          \/ /\ outcome = "tool"
             /\ iteration < MaxIterations
             /\ iteration' = iteration + 1
             /\ UNCHANGED <<state, clarification_received, pc, stream_finished,
                            logs_saved, finish_calls>>
          \/ /\ outcome = "clarification"
             /\ state' = "WAITING_FOR_CLARIFICATION"
             /\ clarification_received' = FALSE
             /\ pc' = "waiting"
             /\ UNCHANGED <<iteration, stream_finished, logs_saved,
                            finish_calls>>
          \/ /\ outcome = "answer"
             /\ state' = "COMPLETED"
             /\ Finally
             /\ UNCHANGED <<iteration, clarification_received>>
          \/ /\ outcome = "error"
             /\ state' = "FAILED"
             /\ Finally
             /\ UNCHANGED <<iteration, clarification_received>>
    /\ UNCHANGED <<available_tokens, reduceVars, agents_storage,
                   current_step_reasoning, user_requested_stop, conversation,
                   context, action_tool, requests, is_infinite, tasks_started,
                   response>>

\* the wait returns and the next pass begins
OrdinaryResume ==
    /\ pc = "waiting"
    /\ ~is_infinite
    /\ clarification_received
    /\ iteration < MaxIterations
    /\ iteration' = iteration + 1
    /\ pc' = "pass"
    /\ UNCHANGED <<available_tokens, reduceVars, agents_storage, state,
                   current_step_reasoning, clarification_received,
                   user_requested_stop, conversation, context, action_tool,
                   stream_finished, logs_saved, finish_calls, requests,
                   is_infinite, tasks_started, response>>

Next ==
    \/ RejectNonStreaming
    \/ \E model \in RequestModels : RejectInvalidModel(model)
    \/ \E model \in RequestModels : CreateAgent(model)
    \/ \E agent_id \in RequestIds : GetAgentState(agent_id)
    \/ \E user_message \in UserTexts : ContinueConversation(user_message)
    \/ \E agent_id \in RequestIds : ProvideClarification(agent_id)
    \/ ContinueOrdinaryAgent
    \/ ExecuteStart
    \/ ReasoningPhase
    \/ ReasoningPhaseRaises
    \/ SelectActionPhase
    \/ ActionPhase
    \/ ToolRaises
    \/ ResumeAfterWait
    \/ OrdinaryExecuteStart
    \/ OrdinaryPass
    \/ OrdinaryResume

Spec == Init /\ [][Next]_vars

(***************************************************************************)
(* SpecReduce: smart_truncate applied to the conversations the loop builds *)
(* (a user task, then tool-call/tool-result pairs and user messages).      *)
(***************************************************************************)
Budgets == {SmallBudget, MediumBudget, LargeBudget}

ToolNames == {"finalanswertool", "createfiletool"}

InitReduce ==
    /\ available_tokens \in Budgets
    /\ input = <<>>
    /\ truncated = <<>>
    /\ retruncated = <<>>
    /\ applied = FALSE
    /\ InitAgent

\* a user message joins the conversation: the task (agent.py:154-160) or a
\* later message (agent.py:133-136)
AppendUser ==
    /\ ~applied
    /\ Len(input) < MaxLen
    /\ \E tokens \in {UserTokens, LongUserTokens} :
          input' = Append(input, UserMessage(Len(input) + 1,
                             IF input = <<>> THEN "task" ELSE "more", tokens))
    /\ UNCHANGED <<available_tokens, truncated, retruncated, applied, agentVars>>

\* one pass of the loop adds the assistant's tool call and the tool's result
AppendToolPass ==
    /\ ~applied
    /\ input # <<>>
    /\ Len(input) + 2 <= MaxLen
    /\ \E name \in ToolNames :
          input' = input \o <<ToolCallMessage(Len(input) + 1, name),
                              ToolResultMessage(Len(input) + 2)>>
    /\ UNCHANGED <<available_tokens, truncated, retruncated, applied, agentVars>>

\* agent.py:66-69, and the same call on its own result
ApplySmartTruncate ==
    /\ ~applied
    /\ truncated' = smart_truncate(input, TRUE, available_tokens)
    /\ retruncated' = smart_truncate(truncated', TRUE, available_tokens)
    /\ applied' = TRUE
    /\ UNCHANGED <<available_tokens, input, agentVars>>

NextReduce == AppendUser \/ AppendToolPass \/ ApplySmartTruncate

SpecReduce == InitReduce /\ [][NextReduce]_vars

(***************************************************************************)
(* SpecConfig: the manager as its constructor leaves it, for context       *)
(* windows above, at and below the two reserves, and smart_truncate        *)
(* applied with it.                                                        *)
(***************************************************************************)
\* the max_tokens a configuration may hand to the constructor
MaxTokensChoices ==
    {ContextWindowSize, SystemPromptReserve + ResponseReserve, ResponseReserve}

\* context_manager.py:10-35: the constructor returns for every argument
InitConfig ==
    /\ \E max_tokens \in MaxTokensChoices :
          available_tokens =
              AvailableTokens(max_tokens, SystemPromptReserve, ResponseReserve)
    /\ input = <<>>
    /\ truncated = <<>>
    /\ retruncated = <<>>
    /\ applied = FALSE
    /\ InitAgent

SpecConfig == InitConfig /\ [][NextReduce]_vars

(***************************************************************************)
(* Properties of the agent (checked under Spec)                            *)
(***************************************************************************)
\* C1: a stop phrase delivered by continue_conversation to an agent in a
\* non-terminal state sets the state to COMPLETED and releases the resume
\* signal a suspended loop waits on, so that the loop can exit and finish
\* the stream.
C1_StopReleasesLoop ==
    [][\A user_message \in UserTexts :
          (/\ IsStopPhrase(user_message)
           /\ state \notin FINISH_STATES
           /\ ContinueConversation(user_message))
              => /\ state' = "COMPLETED"
                 /\ pc = "waiting" => clarification_received']_vars

\* C2: a pass whose tool is FinalAnswerTool, with no stop phrase recorded,
\* ends with the state WAITING_FOR_CLARIFICATION and the loop suspended on
\* the cleared resume signal: the state is not COMPLETED and the loop has
\* not exited.
C2_FinalAnswerWaits ==
    [][(/\ pc = "action"
        /\ pc' # "action"
        /\ action_tool.name = "FinalAnswerTool"
        /\ ~user_requested_stop)
           => /\ state' = "WAITING_FOR_CLARIFICATION"
              /\ pc' = "waiting"
              /\ ~clarification_received'
              /\ ~stream_finished']_vars

C2_Witness ==
    /\ pc = "waiting"
    /\ action_tool.name = "FinalAnswerTool"
    /\ action_tool.status = "COMPLETED"
    /\ ~user_requested_stop
    /\ state = "WAITING_FOR_CLARIFICATION"
    /\ ~clarification_received
    /\ ~stream_finished

\* C3: a non-stop text delivered by continue_conversation to an agent in
\* WAITING_FOR_CLARIFICATION moves the state to RESEARCHING, is appended as a
\* user message and sets the resume signal.
C3_ClarificationResumes ==
    [][\A user_message \in UserTexts :
          (/\ ~IsStopPhrase(user_message)
           /\ state = "WAITING_FOR_CLARIFICATION"
           /\ ContinueConversation(user_message))
              => /\ state' = "RESEARCHING"
                 /\ conversation' = Append(conversation,
                       UserMessage(Len(conversation) + 1, user_message, UserTokens))
                 /\ clarification_received']_vars

\* C10: once the state is COMPLETED or FAILED, no step (a continuation
\* message, a clarification, a remaining step of the loop) changes the state
\* or any other AgentContext field.
C10_TerminalAbsorbing ==
    [][(state \in FINISH_STATES) => (contextVars' = contextVars)]_vars

C12_OneExecuteTask ==
    [][/\ tasks_started' = IF AgentId \in agents_storage' THEN 1 ELSE 0
       /\ (tasks_started' # tasks_started) =>
             (AgentId \notin agents_storage /\ AgentId \in agents_storage')]_vars

C12_Witness ==
    /\ AgentId \in agents_storage
    /\ tasks_started = 1
    /\ requests = MaxRequests
    /\ iteration >= 2
    /\ pc = "reasoning"

\* C13: every step that begins a pass of the loop (the first one, the one
\* after a pass that did not wait, the one resumed after a wait) raises
\* iteration by exactly one, and no other step changes iteration.
C13_IterationCountsPasses ==
    [][/\ (pc' = "reasoning" /\ pc # "reasoning") => iteration' = iteration + 1
       /\ (iteration' # iteration) =>
             /\ iteration' = iteration + 1
             /\ pc \in {"start", "action", "waiting", "pass"}
             /\ pc' = IF is_infinite THEN "reasoning" ELSE "pass"]_vars

C13_Witness ==
    /\ is_infinite
    /\ pc = "reasoning"
    /\ iteration = 2
    /\ WaitsForUser(action_tool, FALSE)
    /\ requests >= 1

\* C14: every step keeps the conversation it found as a prefix of the
\* conversation it leaves (messages are only appended, none is removed or
\* moved), and a step that builds the outbound context builds it from the
\* whole conversation and leaves that conversation untrimmed: the view is
\* another sequence.
C14_ConversationAppendOnly ==
    [][/\ Len(conversation') >= Len(conversation)
       /\ SubSeq(conversation', 1, Len(conversation)) = conversation
       /\ \A i \in 1..Len(conversation') : conversation'[i].id = i
       /\ (context' # context) => context' = PrepareContext(conversation')]_vars

C14_Witness ==
    /\ pc = "reasoning"
    /\ \E i \in 1..Len(context) : context[i].removed >= 0
    /\ Len(conversation) >= 4
    /\ \A i \in 1..Len(conversation) : conversation[i].id = i
    /\ context # <<SystemPrompt>> \o conversation

\* C15: the state becomes FAILED only in a step in which an exception
\* leaves the loop body, that step ends the loop, and an ended loop never
\* begins a pass or calls the reasoning engine again.
C15_FailedStopsLoop ==
    [][/\ (state' = "FAILED" /\ state # "FAILED") =>
             /\ ReasoningPhaseRaises \/ OrdinaryPass
             /\ pc' = "done"
       /\ (pc = "done") =>
             /\ pc' = "done"
             /\ iteration' = iteration
             /\ current_step_reasoning' = current_step_reasoning
             /\ context' = context]_vars

C15_Witness ==
    /\ is_infinite
    /\ state = "FAILED"
    /\ pc = "done"
    /\ iteration >= 1
    /\ ~user_requested_stop

\* C16: the stream is finished exactly when the loop has stopped (never
\* while the task is still in a pass or in a wait), and an agent whose loop
\* has stopped, by a stop request or by an exception, has had finish()
\* called once and its log saved once.
C16_FinishedOnceWhenStopped ==
    /\ stream_finished <=> (pc = "done")
    /\ finish_calls = IF pc = "done" THEN 1 ELSE 0
    /\ logs_saved = IF pc = "done" THEN 1 ELSE 0

C16_Witness ==
    /\ is_infinite
    /\ pc = "done"
    /\ user_requested_stop
    /\ state = "COMPLETED"
    /\ stream_finished
    /\ finish_calls = 1
    /\ logs_saved = 1

\* C17: every manager the constructor returns has a positive budget,
\* available_tokens > 0: a construction whose reserves use up max_tokens
\* fails and returns no manager (checked under SpecConfig).
C17_BudgetPositive == available_tokens > 0

\* C18: a status query and a clarification submission that name an id
\* which is not in the registry are answered with status 404 and change
\* neither the registry nor any field of the agent.
C18_UnknownIdNotFound ==
    [][\A agent_id \in RequestIds :
          (/\ agent_id \notin agents_storage
           /\ GetAgentState(agent_id) \/ ProvideClarification(agent_id))
              => /\ response'.status_code = 404
                 /\ UNCHANGED answerFrame]_vars

\* C19: a continuation request that names a stored agent which is not of
\* the indefinite class and is not in WAITING_FOR_CLARIFICATION is answered
\* with status 400 and changes nothing of the agent or the registry; what
\* continue_conversation does (recording a stop, reopening a finished
\* state, appending a message outside the wait) happens to no such agent.
C19_OrdinaryContinuationRejected ==
    [][/\ (ContinueOrdinaryAgent /\ state # "WAITING_FOR_CLARIFICATION") =>
             /\ response'.status_code = 400
             /\ UNCHANGED answerFrame
       /\ (AgentId \in agents_storage /\ ~is_infinite) =>
             /\ ~user_requested_stop'
             /\ (state \in FINISH_STATES) => state' = state
             /\ (Len(conversation') > Len(conversation) /\ pc # "start") =>
                   state = "WAITING_FOR_CLARIFICATION"]_vars

C19_Witness ==
    /\ AgentId \in agents_storage
    /\ ~is_infinite
    /\ state = "RESEARCHING"
    /\ pc = "pass"
    /\ conversation # <<>>
    /\ response = Response(400, "cannot continue conversation")

\* C20: no step takes an entry out of the registry; the registry changes
\* exactly in the steps that create an agent from a valid request, which
\* answer with the stream and start the one task; a request rejected for
\* stream = false or for its model stores nothing and starts nothing; an
\* agent whose state is COMPLETED or FAILED is still stored, and a status
\* query for a stored agent is answered with its state.
C20_RegistryOnlyGrows ==
    [][/\ agents_storage \subseteq agents_storage'
       /\ (agents_storage' # agents_storage) <=>
             (\E model \in AgentModels : CreateAgent(model))
       /\ (agents_storage' # agents_storage) =>
             /\ response' = StreamingResponse
             /\ tasks_started' = tasks_started + 1
       /\ (RejectNonStreaming \/ \E model \in RequestModels : RejectInvalidModel(model))
             => /\ agents_storage' = agents_storage
                /\ tasks_started' = tasks_started
                /\ pc' = pc
       /\ (state' \in FINISH_STATES) => AgentId \in agents_storage'
       /\ \A agent_id \in RequestIds :
             (agent_id \in agents_storage /\ GetAgentState(agent_id))
                => response' = Response(200, "state")]_vars

C20_Witness ==
    /\ AgentId \in agents_storage
    /\ state = "FAILED"
    /\ pc = "done"
    /\ response = Response(200, "state")

\* C23: the state and the resume signal of an agent change only in steps
\* of its execute task (steps that move the task or begin a pass), never in
\* the step of a request handler.
C23_ContextWrittenByLoopOnly ==
    [][(state' # state \/ clarification_received' # clarification_received)
          => (pc' # pc \/ iteration' # iteration)]_vars

\* the length the conversation had when the last outbound context was
\* built: the context always ends with the conversation's last message, and
\* the id of a message is its position
ProcessedUpTo ==
    IF context = <<>> THEN 0 ELSE context[Len(context)].id

\* a user message other than the stop note that no outbound context held
UnprocessedUserMessage ==
    \E i \in 1..Len(conversation) :
        /\ i > ProcessedUpTo
        /\ conversation[i].role = "user"
        /\ conversation[i].content # "stop requested"

\* C24: the loop of an indefinite-mode agent is never suspended on the
\* cleared resume signal while the conversation holds a user message that
\* no pass has been given: a message delivered while a pass is running is
\* not lost to the clear() that precedes the wait.
C24_NoLostWakeup ==
    ~(/\ is_infinite
      /\ pc = "waiting"
      /\ ~clarification_received
      /\ ~user_requested_stop
      /\ UnprocessedUserMessage)

\* C25: no step resets user_requested_stop, and in every state an
\* indefinite-mode agent reaches with user_requested_stop set its state is
\* COMPLETED or FAILED.
C25_StopImpliesTerminal ==
    [][/\ user_requested_stop => user_requested_stop'
       /\ (is_infinite' /\ user_requested_stop') => state' \in FINISH_STATES]_vars

\* C26: whenever the state of an indefinite-mode agent is RESEARCHING or
\* WAITING_FOR_CLARIFICATION its execute task has not ended and its stream
\* is not finished: an agent whose loop has exited is never put back into
\* a non-terminal state.
C26_NonTerminalImpliesAlive ==
    (is_infinite /\ state \in {"RESEARCHING", "WAITING_FOR_CLARIFICATION"})
        => (pc # "done" /\ ~stream_finished)

(***************************************************************************)
(* Properties of smart_truncate (checked under SpecReduce)                 *)
(***************************************************************************)
Range(seq) == {seq[i] : i \in 1..Len(seq)}

IsSummary(msg) == msg.id = 0 /\ msg.role = "system" /\ msg.removed >= 0

\* the input messages that are absent from the output
Dropped == {i \in 1..Len(input) : input[i] \notin Range(truncated)}

\* the last n messages after the first (all of them when there are fewer)
TailAfterFirst(conv, n) ==
    {conv[i] : i \in Max(2, Len(conv) - n + 1)..Len(conv)}

\* C4: a conversation whose token count is at most available_tokens is
\* returned unchanged: same messages, same order, nothing added.
C4_FastPathIdentity ==
    (applied /\ count_tokens(input) <= available_tokens) => truncated = input

C4_Witness ==
    /\ applied
    /\ Len(input) >= 3
    /\ count_tokens(input) <= available_tokens
    /\ truncated = input

\* C5: the output either fits available_tokens or is exactly the minimal
\* guarantee: the first message, one summary marker, then the last 6
\* messages after the first (all of them when there are fewer).
C5_FitsOrMinimalGuarantee ==
    applied =>
        \/ count_tokens(truncated) <= available_tokens
        \/ LET K == Min(FallbackKeep, Len(input) - 1)
           IN  /\ Len(truncated) = K + 2
               /\ truncated[1] = input[1]
               /\ IsSummary(truncated[2])
               /\ \A i \in 1..K : truncated[2 + i] = input[Len(input) - K + i]

C5_Witness ==
    /\ applied
    /\ Len(input) >= 9
    /\ count_tokens(truncated) > available_tokens
    /\ Len(truncated) = FallbackKeep + 2

\* C6: smart_truncate never increases the token count.
C6_NeverIncreasesSize ==
    applied => count_tokens(truncated) <= count_tokens(input)

\* C7: smart_truncate is idempotent on its own output.
C7_Idempotent ==
    applied => retruncated = truncated

\* C8: whenever at least one input message is dropped, the output holds
\* exactly one summary marker and the number it states is the number of
\* input messages absent from the output.
C8_DropsAreCounted ==
    (applied /\ Dropped # {}) =>
        /\ Cardinality({i \in 1..Len(truncated) : IsSummary(truncated[i])}) = 1
        /\ \A i \in 1..Len(truncated) :
              IsSummary(truncated[i]) => truncated[i].removed = Cardinality(Dropped)

\* C9 as stated: the output starts with the first message and holds every
\* message of the recent tail (the last 8 after the first) on both paths.
C9_RecentTailRetained ==
    (applied /\ input # <<>>) =>
        /\ truncated # <<>>
        /\ truncated[1] = input[1]
        /\ TailAfterFirst(input, RecentWindow) \subseteq Range(truncated)

\* C9 as amended: the output starts with the first message and holds the
\* last 6 messages after the first on every path; it holds the whole recent
\* tail of 8 whenever no summary marker was emitted (the fast path and the
\* importance-aware path).
C9_FirstAndTailRetained ==
    (applied /\ input # <<>>) =>
        /\ truncated # <<>>
        /\ truncated[1] = input[1]
        /\ TailAfterFirst(input, FallbackKeep) \subseteq Range(truncated)
        /\ (\A i \in 1..Len(truncated) : ~IsSummary(truncated[i]))
              => TailAfterFirst(input, RecentWindow) \subseteq Range(truncated)

C9_Witness ==
    /\ applied
    /\ Len(input) >= RecentWindow + 2
    /\ \E i \in 1..Len(truncated) : IsSummary(truncated[i])
    /\ ~(TailAfterFirst(input, RecentWindow) \subseteq Range(truncated))
    /\ TailAfterFirst(input, FallbackKeep) \subseteq Range(truncated)

\* messages of every kind count_tokens tells apart: no content and no tool
\* calls, content only, a tool call with content, a tool call whose function
\* is missing or empty, a tool result
ProbeMessages(id) ==
    {Message(id, "assistant", "", 0, <<>>),
     UserMessage(id, "more", UserTokens),
     UserMessage(id, "more", LongUserTokens),
     ToolCallMessage(id, "finalanswertool"),
     Message(id, "assistant", "", 0, <<ToolCall("", 0)>>),
     ToolResultMessage(id)}

\* C21: appending any message to any conversation raises count_tokens: by
\* the overhead of 4 plus the tokens of the content plus the tokens of every
\* tool call's name and arguments, hence by 4 at least.
C21_CountMonotonic ==
    LET before == count_tokens(input)
    IN  \A m \in ProbeMessages(Len(input) + 1) :
            LET after == count_tokens(Append(input, m))
            IN  /\ after > before
                /\ after = before + RoleOverhead + m.tokens
                               + ToolCallsTokens(m.tool_calls)

C21_Witness ==
    /\ Len(input) >= 3
    /\ input[Len(input)].role = "tool"
    /\ count_tokens(input) =
          count_tokens(SubSeq(input, 1, Len(input) - 1))
              + RoleOverhead + ToolResultTokens
    /\ count_tokens(Append(input, Message(Len(input) + 1, "assistant", "", 0, <<>>)))
          = count_tokens(input) + RoleOverhead

\* how often a message stands in the output
Occurrences(msg) ==
    Cardinality({i \in 1..Len(truncated) : truncated[i] = msg})

\* the summary marker stands in the output
HasSummary == \E i \in 1..Len(truncated) : IsSummary(truncated[i])

\* the message at position k (counted from 1) is in the recent tail
InRecentTail(k) == k > RecentThreshold(input)

Retained ==
    LET NotSummary(msg) == ~IsSummary(msg)
    IN  SelectSeq(truncated, NotSummary)

\* C27: with the summary marker taken out, the output of smart_truncate is
\* a subsequence of its input: every message in it is the message of the
\* input at the position its id names, and the positions increase along
\* the output.
C27_OutputIsSubsequence ==
    applied =>
        LET kept == Retained
        IN  /\ \A i \in 1..Len(kept) :
                  /\ kept[i].id \in 1..Len(input)
                  /\ kept[i] = input[kept[i].id]
            /\ \A i \in 1..Len(kept) : \A j \in 1..Len(kept) :
                  (i < j) => kept[i].id < kept[j].id

C27_Witness ==
    /\ applied
    /\ count_tokens(input) > available_tokens
    /\ ~HasSummary
    /\ Len(Retained) < Len(input)
    /\ Len(Retained) > RecentWindow
    /\ Retained[1] = input[1]
    /\ Retained[Len(Retained)] = input[Len(input)]

====
